---- MODULE Spec2Model ----
(***************************************************************************)
(* The WebSocket session handler of go-websocket (src/ws.go): the          *)
(* admission gate, upgradeWithTimeout, the start callback, the keepalive   *)
(* worker with its deadlines and the read/dispatch loop of Get, for a      *)
(* small number of concurrent requests; and the read loop of the earlier   *)
(* JSON-decoding handler, bizHandler with bizHandlerJson.                  *)
(***************************************************************************)
EXTENDS Integers, Sequences, FiniteSets, TLC

\* ---------------------------------------------------------------- bounds
NumSessions == 3   \* concurrent requests served by the Get handler
MaxLimit == 2      \* largest limit given to InitWsConnLimit
MaxReads == 3      \* reads that return in a session
MaxPings == 2      \* keepalive pings written in a session
MaxTime == 3       \* ticks of the clock
MaxRelayReads == 4 \* reads that return in each direction of a relay
MaxWaitGroups == 2 \* calls of InitWaitGroup on one context
MaxAdds == 2       \* calls of IncrWaitGroup that reach one wait group

Sessions == 1..NumSessions

\* ------------------------------------------------------------- constants
Nil == "nil"

\* gorilla/websocket frame types, as the handler compares them
TextMessage == 1
BinaryMessage == 2
CloseMessage == 8
PingMessage == 9
PongMessage == 10
NoFrame == -1

StatusOK == 200
StatusBadRequest == 400

ConnKey == "WsConn"
EndedKey == "WsEnded"
ForwardConnKey == "WsForwardConn"
ForwardConnTimestampKey == "WsForwardConnTimestamp"
ForwardEndedKey == "WsForwardEnded"

\* The forward marks callers pass, the forward sockets they store and the
\* timestamps (int64 values) they store.
Marks == {"", "a", "Timestamp"}
ForwardConns == {"forwardConn1", "forwardConn2"}
Timestamps == {"1700000001", "1700000002"}

\* The keys of the context's extra values the package uses: the constant, or
\* the constant followed by the forward mark.
CtxKeys ==
    {ConnKey, EndedKey}
        \cup {ForwardConnKey \o m : m \in Marks}
        \cup {ForwardConnTimestampKey \o m : m \in Marks}
        \cup {ForwardEndedKey \o m : m \in Marks}

Payloads == {"a", "b"}

\* What a read of the socket can hand to the loop: a frame without error, or
\* an error (with the no-frame type and no payload).
Frames ==
    [mt : {TextMessage}, data : Payloads]
        \cup [mt : {BinaryMessage, CloseMessage, PingMessage, PongMessage, NoFrame},
              data : {"a"}]

ReadErrors == {"net", "other"}

ReadResults ==
    [mt : {TextMessage}, data : Payloads, err : {Nil}]
        \cup [mt : {BinaryMessage, CloseMessage, PingMessage, PongMessage, NoFrame},
              data : {"a"}, err : {Nil}]
        \cup [mt : {NoFrame}, data : {""}, err : ReadErrors]

StartOutcomes == {"ok", "okEnded", "err", "dgerr", "panic"}
BizOutcomes == {"ok", "err", "ended", "panic"}
EndCallbackOutcomes == {"ok", "err"}

\* The durations of a WebSocketHandlerConfig, in ticks of the clock; 0 is the
\* zero duration, which switches the feature off.
PingPeriods == {0, 1}
PongWaits == {0, 2}
WriteWaits == {0, 1}

\* The zero time.Time: no deadline.
NoDeadline == 0

\* The texts a client of the JSON handler sends, as json.Unmarshal and the
\* validator see them: well-formed JSON or not, and the characters of the
\* "content" member.
MinLength == 3

JsonPayloads ==
    { [wellFormed |-> TRUE, content |-> <<"1", "2", "3">>],
      [wellFormed |-> TRUE, content |-> <<"1", "2">>],
      [wellFormed |-> TRUE, content |-> <<>>],
      [wellFormed |-> FALSE, content |-> <<>>] }

NoPayload == [wellFormed |-> FALSE, content |-> <<>>]

JsonReadResults ==
    [mt : {TextMessage}, data : JsonPayloads, err : {Nil}]
        \cup [mt : {CloseMessage, PingMessage, PongMessage}, data : {NoPayload}, err : {Nil}]
        \cup [mt : {NoFrame}, data : {NoPayload}, err : {"net"}]

JsonBizOutcomes == {"ok", "err"}

VARIABLES
    semaphore,   \* the package's gocc.Semaphore: nil, or a limit and the permits held
    conf,        \* the WebSocketHandlerConfig of the route
    pc,          \* where each request's handler is
    exit,        \* why a handler returned
    tryResult,   \* what TryAcquire returned to the handler ("none": not called)
    releases,    \* calls of semaphore.Release() by the handler
    upg,         \* the goroutine of upgradeWithTimeout
    connChan,    \* its buffered channel of the upgraded socket
    errChan,     \* its buffered channel of the upgrade error
    sock,        \* the upgraded socket: "none", "open", "closed"
    closes,      \* calls of conn.Close() by the handler
    ctx,         \* the DgContext's extra values
    response,    \* the HTTP response written by the handler
    started,     \* the outcome of StartHandler ("none": not invoked)
    pinger,      \* the keepalive goroutine
    pings,       \* pings it wrote
    written,     \* frames the handler wrote to the socket
    readLog,     \* what ReadMessage returned, in order
    dispatched,  \* the BizHandler invocations, in order
    endCalls,    \* the EndCallbackHandler invocations (their outcomes), in order
    now,         \* time.Now(), in ticks
    timers,      \* each session's read, write and ping deadlines and end of sleep
    jh,          \* the session served by the JSON handler (bizHandler)
    fw,          \* the session relayed by WebSocketForward
    ph,          \* the session of the handler with a forward (peer) socket
    trace,       \* each session's sub-span and EndCallbackHandler calls, in order
    wg           \* the sync.WaitGroups made by InitWaitGroup and their users

vars ==
    <<semaphore, conf, pc, exit, tryResult, releases, upg, connChan, errChan, sock,
      closes, ctx, response, started, pinger, pings, written, readLog, dispatched,
      endCalls, now, timers, jh, fw, ph, trace, wg>>

\* ---------------------------------------------------------- the context
SetExtraKeyValue(c, k, v) == [c EXCEPT ![k] = v]

SetConn(c, conn) == SetExtraKeyValue(c, ConnKey, conn)

GetConn(c) == c[ConnKey]

SetWsEnded(c) == SetExtraKeyValue(c, EndedKey, "true")

IsWsEnded(c) == c[EndedKey] # Nil /\ c[EndedKey] = "true"

\* The accessors of the entries keyed by a forward mark. A type assertion on
\* a value of another type panics.
SetForwardConnOf(c, forwardMark, conn) ==
    SetExtraKeyValue(c, ForwardConnKey \o forwardMark, conn)

GetForwardConnOf(c, forwardMark) ==
    LET conn == c[ForwardConnKey \o forwardMark] IN
    IF conn = Nil THEN Nil
    ELSE IF conn \in ForwardConns \cup {"conn"} THEN conn
    ELSE "panic"

SetForwardWsEnded(c, forwardMark) ==
    SetExtraKeyValue(c, ForwardEndedKey \o forwardMark, "true")

UnsetForwardWsEnded(c, forwardMark) ==
    SetExtraKeyValue(c, ForwardEndedKey \o forwardMark, "false")

IsForwardWsEnded(c, forwardMark) ==
    LET ended == c[ForwardEndedKey \o forwardMark] IN
    ended # Nil /\ ended = "true"

SetForwardConnTimestamp(c, forwardMark, ts) ==
    SetExtraKeyValue(c, ForwardConnTimestampKey \o forwardMark, ts)

GetForwardConnTimestamp(c, forwardMark) ==
    LET ts == c[ForwardConnTimestampKey \o forwardMark] IN
    IF ts = Nil THEN "0"
    ELSE IF ts \in Timestamps THEN ts
    ELSE "panic"

DefaultIsEndHandlerCloseOnly(mt, data) == mt = CloseMessage

DefaultIsEndHandler(mt, data) == mt = CloseMessage \/ mt = -1

\* ------------------------------------------------------- the semaphore
\* gocc.Semaphore as Get uses it: a counting semaphore of `limit` permits whose
\* TryAcquire never blocks. InitWsConnLimit passes its argument on unchanged.
NilSemaphore == [nil |-> TRUE, limit |-> 0, held |-> 0]

InitWsConnLimit(limit) == [nil |-> FALSE, limit |-> limit, held |-> 0]

TryAcquire(sem) == sem.held < sem.limit

Acquire(sem) == [sem EXCEPT !.held = @ + 1]

Release(sem) == [sem EXCEPT !.held = @ - 1]

\* ------------------------------------------------------------ helpers
NoResponse == [status |-> 0, body |-> ""]

BusyResponse == [status |-> StatusOK, body |-> "SYSTEM_BUSY"]

UpgradeFailedResponse == [status |-> StatusBadRequest, body |-> "websocket upgrade failed"]

\* ------------------------------------------------------------ the clock
\* time.Now().Add(wait) where the code guards it with wait > 0, else no deadline.
DeadlineAfter(wait) == IF wait > 0 THEN now + wait ELSE NoDeadline

\* A deadline that is set and lies before the present.
Expired(deadline) == deadline # NoDeadline /\ deadline < now

NoTimers ==
    [readDeadline |-> NoDeadline, writeDeadline |-> NoDeadline,
     pingDeadline |-> NoDeadline, wakeAt |-> 0]

\* A frame as conn.WriteMessage sends it: at the present, under the write
\* deadline d of the socket.
Written(f, d) == [mt |-> f.mt, data |-> f.data, at |-> now, deadline |-> d]

\* ---------------------------------------------------------------- Init
\* The session of the JSON handler before its request arrives.
JsonIdle ==
    [pc |-> "idle", sock |-> "none", closes |-> 0, ended |-> FALSE, reads |-> <<>>,
     handled |-> <<>>, written |-> <<>>, endCalls |-> 0]

\* WebSocketForward before its request arrives: no socket, the two copies of
\* syncWsMessage (down: client to upstream, run by the handler; up: upstream
\* to client, run by the goroutine) not started.
NoRead == [mt |-> NoFrame, data |-> "", err |-> Nil]

NoPump == [at |-> "none", got |-> NoRead, reads |-> <<>>, writes |-> <<>>]

ForwardIdle ==
    [pc |-> "idle", externalConn |-> "none", internalConn |-> "none",
     externalCloses |-> 0, internalCloses |-> 0, needClose |-> FALSE,
     down |-> NoPump, up |-> NoPump]

\* A context without a wait group: key is the wait group stored under
\* WaitGroupKey (0: none), groups the wait groups InitWaitGroup has made, each
\* with its counter and the Add(1) and Done() calls it received, waiter the
\* goroutine that calls WaitGroupAllDone, with what its wait group had
\* received when Wait returned.
NoWaiter == [at |-> "idle", on |-> 0, adds |-> 0, dones |-> 0]

NoWaitGroups == [key |-> 0, groups |-> <<>>, waiter |-> NoWaiter, panicked |-> FALSE]

\* The handler with a forward socket before its request arrives.
PeerIdle ==
    [pc |-> "idle", permit |-> FALSE, sock |-> "none", closes |-> 0,
     forward |-> "none", forwardCloses |-> 0, ended |-> FALSE, reads |-> 0,
     handled |-> 0, endCalls |-> 0]

InitSessions ==
    /\ pc = [s \in Sessions |-> "idle"]
    /\ exit = [s \in Sessions |-> "none"]
    /\ tryResult = [s \in Sessions |-> "none"]
    /\ releases = [s \in Sessions |-> 0]
    /\ upg = [s \in Sessions |-> "none"]
    /\ connChan = [s \in Sessions |-> "empty"]
    /\ errChan = [s \in Sessions |-> "empty"]
    /\ sock = [s \in Sessions |-> "none"]
    /\ closes = [s \in Sessions |-> 0]
    /\ ctx = [s \in Sessions |-> [k \in CtxKeys |-> Nil]]
    /\ response = [s \in Sessions |-> NoResponse]
    /\ started = [s \in Sessions |-> "none"]
    /\ pinger = [s \in Sessions |-> "none"]
    /\ pings = [s \in Sessions |-> <<>>]
    /\ written = [s \in Sessions |-> <<>>]
    /\ readLog = [s \in Sessions |-> <<>>]
    /\ dispatched = [s \in Sessions |-> <<>>]
    /\ endCalls = [s \in Sessions |-> <<>>]
    /\ now = 0
    /\ timers = [s \in Sessions |-> NoTimers]
    /\ jh = JsonIdle
    /\ fw = ForwardIdle
    /\ ph = PeerIdle
    /\ trace = [s \in Sessions |-> <<>>]
    /\ wg = NoWaitGroups

\* Routes without read and write deadlines.
Init ==
    /\ semaphore \in {NilSemaphore} \cup {InitWsConnLimit(l) : l \in 0..MaxLimit}
    /\ conf \in [PingPeriod : PingPeriods, EndCallbackHandler : BOOLEAN,
                 PongWait : {0}, WriteWait : {0}, EnableMessageTracer : {FALSE}]
    /\ InitSessions

\* Routes with every combination of the keepalive durations, no semaphore.
InitKeepalive ==
    /\ semaphore = NilSemaphore
    /\ conf \in [PingPeriod : PingPeriods, EndCallbackHandler : {FALSE},
                 PongWait : PongWaits, WriteWait : WriteWaits,
                 EnableMessageTracer : {FALSE}]
    /\ InitSessions

\* ------------------------------------------------- returning from Get
\* The handler returns (or unwinds): its deferred calls run, conn.Close()
\* when it was registered, then semaphore.Release() when it was registered.
ReturnWithoutRelease(s, why, closeDeferred) ==
    /\ pc' = [pc EXCEPT ![s] = "done"]
    /\ exit' = [exit EXCEPT ![s] = why]
    /\ closes' = IF closeDeferred THEN [closes EXCEPT ![s] = @ + 1] ELSE closes
    /\ sock' = IF closeDeferred THEN [sock EXCEPT ![s] = "closed"] ELSE sock
    /\ UNCHANGED <<semaphore, releases>>

ReturnWithoutClose(s, why, closeDeferred) ==
    /\ pc' = [pc EXCEPT ![s] = "done"]
    /\ exit' = [exit EXCEPT ![s] = why]
    /\ UNCHANGED <<closes, sock>>
    /\ IF tryResult[s] = "true"
       THEN /\ semaphore' = Release(semaphore)
            /\ releases' = [releases EXCEPT ![s] = @ + 1]
       ELSE UNCHANGED <<semaphore, releases>>

Return(s, why, closeDeferred) ==
    /\ pc' = [pc EXCEPT ![s] = "done"]
    /\ exit' = [exit EXCEPT ![s] = why]
    /\ closes' = IF closeDeferred THEN [closes EXCEPT ![s] = @ + 1] ELSE closes
    /\ sock' = IF closeDeferred THEN [sock EXCEPT ![s] = "closed"] ELSE sock
    /\ IF tryResult[s] = "true"
       THEN /\ semaphore' = Release(semaphore)
            /\ releases' = [releases EXCEPT ![s] = @ + 1]
       ELSE UNCHANGED <<semaphore, releases>>

\* The top of the loop: leave it when the ended flag is set, else block in
\* conn.ReadMessage().
LoopTop(s, c) ==
    IF IsWsEnded(c)
    THEN Return(s, "ended", TRUE)
    ELSE /\ pc' = [pc EXCEPT ![s] = "reading"]
         /\ UNCHANGED <<exit, closes, sock, semaphore, releases>>

\* ------------------------------------------------------ the admission
\* TryAcquire failed: the busy response, and the handler returns.
RejectAndProceed(s) ==
    /\ tryResult' = [tryResult EXCEPT ![s] = "false"]
    /\ response' = [response EXCEPT ![s] = BusyResponse]
    /\ pc' = [pc EXCEPT ![s] = "upgrading"]
    /\ upg' = [upg EXCEPT ![s] = "running"]
    /\ UNCHANGED <<semaphore, exit>>

Reject(s) ==
    /\ tryResult' = [tryResult EXCEPT ![s] = "false"]
    /\ response' = [response EXCEPT ![s] = BusyResponse]
    /\ pc' = [pc EXCEPT ![s] = "done"]
    /\ exit' = [exit EXCEPT ![s] = "busy"]
    /\ UNCHANGED <<semaphore, upg>>

\* Admitted (a permit taken, or no semaphore): upgradeWithTimeout starts its
\* goroutine and waits in the select.
Admit(s) ==
    /\ IF semaphore.nil
       THEN UNCHANGED <<semaphore, tryResult>>
       ELSE /\ semaphore' = Acquire(semaphore)
            /\ tryResult' = [tryResult EXCEPT ![s] = "true"]
    /\ pc' = [pc EXCEPT ![s] = "upgrading"]
    /\ upg' = [upg EXCEPT ![s] = "running"]
    /\ UNCHANGED <<response, exit>>

\* Get without the admission gate: every request is admitted.
GetEnterNoGate(s) ==
    /\ pc[s] = "idle"
    /\ Admit(s)
    /\ UNCHANGED <<conf, releases, connChan, errChan, sock, closes, ctx, started,
                   pinger, pings, written, readLog, dispatched, endCalls, now, timers,
                   jh, fw, ph, trace, wg>>

GetEnter(s) ==
    /\ pc[s] = "idle"
    /\ IF ~semaphore.nil /\ ~TryAcquire(semaphore) THEN Reject(s) ELSE Admit(s)
    /\ UNCHANGED <<conf, releases, connChan, errChan, sock, closes, ctx, started,
                   pinger, pings, written, readLog, dispatched, endCalls, now, timers,
                   jh, fw, ph, trace, wg>>

\* ------------------------------------------------ upgradeWithTimeout
\* The goroutine: upgrader.Upgrade returns a socket or an error, sent on a
\* channel with a buffer of one.
UpgradeGoroutineUnbuffered(s, ok) ==
    /\ upg[s] = "running"
    /\ pc[s] = "upgrading"
    /\ upg' = [upg EXCEPT ![s] = "done"]
    /\ IF ok
       THEN /\ sock' = [sock EXCEPT ![s] = "open"]
            /\ connChan' = [connChan EXCEPT ![s] = "full"]
            /\ UNCHANGED errChan
       ELSE /\ errChan' = [errChan EXCEPT ![s] = "full"]
            /\ UNCHANGED <<sock, connChan>>
    /\ UNCHANGED <<semaphore, conf, pc, exit, tryResult, releases, closes, ctx,
                   response, started, pinger, pings, written, readLog, dispatched,
                   endCalls, now, timers, jh, fw, ph, trace, wg>>

UpgradeGoroutine(s, ok) ==
    /\ upg[s] = "running"
    /\ upg' = [upg EXCEPT ![s] = "done"]
    /\ IF ok
       THEN /\ sock' = [sock EXCEPT ![s] = "open"]
            /\ connChan' = [connChan EXCEPT ![s] = "full"]
            /\ UNCHANGED errChan
       ELSE /\ errChan' = [errChan EXCEPT ![s] = "full"]
            /\ UNCHANGED <<sock, connChan>>
    /\ UNCHANGED <<semaphore, conf, pc, exit, tryResult, releases, closes, ctx,
                   response, started, pinger, pings, written, readLog, dispatched,
                   endCalls, now, timers, jh, fw, ph, trace, wg>>

\* upgradeWithTimeout returned an error: the error response, and Get returns.
UpgradeFailedNoReturn(s, why) ==
    /\ response' = [response EXCEPT ![s] = UpgradeFailedResponse]
    /\ ctx' = [ctx EXCEPT ![s] = SetConn(@, "conn")]
    /\ started' = [started EXCEPT ![s] = "ok"]
    /\ pc' = [pc EXCEPT ![s] = "reading"]
    /\ UNCHANGED <<exit, closes, sock, semaphore, releases>>

UpgradeFailed(s, why) ==
    /\ response' = [response EXCEPT ![s] = UpgradeFailedResponse]
    /\ Return(s, why, FALSE)
    /\ UNCHANGED <<ctx, started>>

SelectErr(s) ==
    /\ pc[s] = "upgrading"
    /\ errChan[s] = "full"
    /\ errChan' = [errChan EXCEPT ![s] = "empty"]
    /\ UpgradeFailed(s, "upgradeError")
    /\ UNCHANGED <<conf, tryResult, upg, connChan, pinger, pings, written, readLog,
                   dispatched, endCalls, now, timers, jh, fw, ph, trace, wg>>

SelectTimeout(s) ==
    /\ pc[s] = "upgrading"
    /\ UpgradeFailed(s, "upgradeTimeout")
    /\ UNCHANGED <<conf, tryResult, upg, connChan, errChan, pinger, pings, written,
                   readLog, dispatched, endCalls, now, timers, jh, fw, ph, trace, wg>>

\* ------------------------------------------------- the start of a session
\* handleWsError: one text frame with the failure result.
ErrorFrame(o) ==
    [mt |-> TextMessage, data |-> IF o = "dgerr" THEN "FailByError" ELSE "SimpleFail"]

\* StartHandler returned an error: handleWsError writes the frame, Get returns.
StartFailedAndContinue(s, o) ==
    /\ written' = [written EXCEPT
                      ![s] = Append(@, Written(ErrorFrame(o), DeadlineAfter(conf.WriteWait)))]
    /\ pc' = [pc EXCEPT ![s] = "reading"]
    /\ UNCHANGED <<pinger, exit, closes, sock, semaphore, releases>>

StartFailed(s, o) ==
    /\ written' = [written EXCEPT
                      ![s] = Append(@, Written(ErrorFrame(o), DeadlineAfter(conf.WriteWait)))]
    /\ Return(s, "startError", TRUE)
    /\ UNCHANGED pinger

\* StartHandler returned nil: startPing when PingPeriod > 0, then the loop.
EnterLoop(s, c) ==
    /\ pinger' = IF conf.PingPeriod > 0 THEN [pinger EXCEPT ![s] = "sleep"] ELSE pinger
    /\ LoopTop(s, c)
    /\ UNCHANGED written

\* The deadlines Get sets up: the read deadline PongWait ahead and the write
\* deadline WriteWait ahead, both from the time of the set-up; and, when the
\* keepalive goroutine is started (StartHandler outcome o, PingPeriod > 0),
\* the deadline handed to startPing and the end of its first sleep.
SessionTimers(o) ==
    LET pinging == o \in {"ok", "okEnded"} /\ conf.PingPeriod > 0 IN
    [readDeadline |-> DeadlineAfter(conf.PongWait),
     writeDeadline |-> DeadlineAfter(conf.WriteWait),
     pingDeadline |-> IF pinging THEN DeadlineAfter(conf.WriteWait) ELSE NoDeadline,
     wakeAt |-> IF pinging THEN now + conf.PingPeriod ELSE 0]

\* The select received the socket; Get sets the deadlines, stores the socket,
\* registers its Close, calls StartHandler (outcome o), starts the keepalive
\* goroutine and enters the loop.
SelectConn(s, o) ==
    /\ pc[s] = "upgrading"
    /\ connChan[s] = "full"
    /\ connChan' = [connChan EXCEPT ![s] = "empty"]
    /\ started' = [started EXCEPT ![s] = o]
    /\ timers' = [timers EXCEPT ![s] = SessionTimers(o)]
    /\ LET c == IF o = "okEnded" THEN SetWsEnded(SetConn(ctx[s], "conn"))
                ELSE SetConn(ctx[s], "conn")
       IN /\ ctx' = [ctx EXCEPT ![s] = c]
          /\ CASE o \in {"err", "dgerr"} -> StartFailed(s, o)
               [] o = "panic" ->
                    /\ Return(s, "startPanic", TRUE)
                    /\ UNCHANGED <<pinger, written>>
               [] o \in {"ok", "okEnded"} -> EnterLoop(s, c)
    /\ UNCHANGED <<conf, tryResult, upg, errChan, response, pings, readLog, dispatched,
                   endCalls, now, jh, fw, ph, trace, wg>>

\* ------------------------------------------------------ the read loop
\* The frame handed to BizHandler: the type and payload of the read.
WebSocketMessageSwapped(r) == [mt |-> r.mt, data |-> IF r.data = "a" THEN "b" ELSE "a"]

WebSocketMessage(r) == [mt |-> r.mt, data |-> r.data]

\* The read returned without error and IsEndedHandler accepts its frame.
EndsSession(r) == r.err = Nil /\ DefaultIsEndHandler(r.mt, r.data)

\* Reads that reach BizHandler.
Dispatches(r) == r.err = Nil /\ ~DefaultIsEndHandler(r.mt, r.data) /\ r.mt # PongMessage

\* The read deadline of the socket has passed: reads fail from then on.
ReadExpired(s) == Expired(timers[s].readDeadline)

\* The read returned an error: the ended flag is set and the loop is left.
ReadFailedRetry(s, r) ==
    /\ LoopTop(s, ctx[s])
    /\ UNCHANGED <<ctx, endCalls, written, dispatched, timers>>

ReadFailedNoFlag(s, r) ==
    /\ Return(s, "readError", TRUE)
    /\ UNCHANGED <<ctx, endCalls, written, dispatched, timers>>

ReadFailed(s, r) ==
    /\ ctx' = [ctx EXCEPT ![s] = SetWsEnded(@)]
    /\ Return(s, "readError", TRUE)
    /\ UNCHANGED <<endCalls, written, dispatched, timers>>

\* IsEndedHandler returned true: the ended flag, EndCallbackHandler when there
\* is one (outcome o, only logged), the close frame with the payload read, and
\* the loop is left.
EndOfSessionFallsThrough(s, r, o) ==
    /\ ctx' = [ctx EXCEPT ![s] = SetWsEnded(@)]
    /\ endCalls' = IF conf.EndCallbackHandler
                   THEN [endCalls EXCEPT ![s] = Append(@, o)]
                   ELSE endCalls
    /\ written' = [written EXCEPT
                      ![s] = Append(@, Written([mt |-> CloseMessage, data |-> r.data],
                                               timers[s].writeDeadline))]
    /\ dispatched' = [dispatched EXCEPT
                         ![s] = Append(@, [msg |-> WebSocketMessage(r), res |-> "ok"])]
    /\ Return(s, "endFrame", TRUE)
    /\ UNCHANGED timers

EndOfSessionNoEcho(s, r, o) ==
    /\ ctx' = [ctx EXCEPT ![s] = SetWsEnded(@)]
    /\ endCalls' = IF conf.EndCallbackHandler
                   THEN [endCalls EXCEPT ![s] = Append(@, o)]
                   ELSE endCalls
    /\ Return(s, "endFrame", TRUE)
    /\ UNCHANGED <<written, dispatched, timers>>

EndOfSession(s, r, o) ==
    /\ ctx' = [ctx EXCEPT ![s] = SetWsEnded(@)]
    /\ endCalls' = IF conf.EndCallbackHandler
                   THEN [endCalls EXCEPT ![s] = Append(@, o)]
                   ELSE endCalls
    /\ written' = [written EXCEPT
                      ![s] = Append(@, Written([mt |-> CloseMessage, data |-> r.data],
                                               timers[s].writeDeadline))]
    /\ Return(s, "endFrame", TRUE)
    /\ UNCHANGED <<dispatched, timers>>

\* The handler Get installs with SetPongHandler when PongWait > 0; the socket
\* runs it on every pong.
PongHandlerUnset(t) == t

PongHandler(t) ==
    IF conf.PongWait > 0 THEN [t EXCEPT !.readDeadline = now + conf.PongWait] ELSE t

\* A pong: the pong handler has run; the loop drops the frame and reads on.
PongReceived(s) ==
    /\ timers' = [timers EXCEPT ![s] = PongHandler(@)]
    /\ LoopTop(s, ctx[s])
    /\ UNCHANGED <<ctx, endCalls, written, dispatched>>

\* Any other frame goes to BizHandler, outcome o: an error is logged, and the
\* loop goes on; a panic unwinds Get.
DispatchExtendsDeadline(s, r, o) ==
    /\ dispatched' = [dispatched EXCEPT
                         ![s] = Append(@, [msg |-> WebSocketMessage(r), res |-> o])]
    /\ timers' = [timers EXCEPT ![s].readDeadline = DeadlineAfter(conf.PongWait)]
    /\ CASE o = "panic" ->
              /\ Return(s, "bizPanic", TRUE)
              /\ UNCHANGED ctx
         [] o = "ended" ->
              /\ ctx' = [ctx EXCEPT ![s] = SetWsEnded(@)]
              /\ LoopTop(s, SetWsEnded(ctx[s]))
         [] OTHER ->
              /\ LoopTop(s, ctx[s])
              /\ UNCHANGED ctx
    /\ UNCHANGED <<endCalls, written>>

DispatchBreakOnError(s, r, o) ==
    /\ dispatched' = [dispatched EXCEPT
                         ![s] = Append(@, [msg |-> WebSocketMessage(r), res |-> o])]
    /\ CASE o \in {"panic", "err"} ->
              /\ Return(s, "bizPanic", TRUE)
              /\ UNCHANGED ctx
         [] o = "ended" ->
              /\ ctx' = [ctx EXCEPT ![s] = SetWsEnded(@)]
              /\ LoopTop(s, SetWsEnded(ctx[s]))
         [] OTHER ->
              /\ LoopTop(s, ctx[s])
              /\ UNCHANGED ctx
    /\ UNCHANGED <<endCalls, written, timers>>

Dispatch(s, r, o) ==
    /\ dispatched' = [dispatched EXCEPT
                         ![s] = Append(@, [msg |-> WebSocketMessage(r), res |-> o])]
    /\ CASE o = "panic" ->
              /\ Return(s, "bizPanic", TRUE)
              /\ UNCHANGED ctx
         [] o = "ended" ->
              /\ ctx' = [ctx EXCEPT ![s] = SetWsEnded(@)]
              /\ LoopTop(s, SetWsEnded(ctx[s]))
         [] OTHER ->
              /\ LoopTop(s, ctx[s])
              /\ UNCHANGED ctx
    /\ UNCHANGED <<endCalls, written, timers>>

\* ------------------------------------------- the calls of an iteration
\* A call the loop makes, with what the callee can observe of the session:
\* the ended flag of the context and the number of frames written so far.
Call(what, ended, frames) == [call |-> what, ended |-> ended, frames |-> frames]

\* dgotel.Tracer.Start for the read when per-message tracing is enabled (the
\* request having a span), and the end of that sub-span by dgotel.EndSpan or
\* dgotel.RecordErrorAndEndSpan.
TracerStart(s) ==
    IF conf.EnableMessageTracer
    THEN <<Call("Start", IsWsEnded(ctx[s]), Len(written[s]))>>
    ELSE <<>>

EndSpan(ended, frames) ==
    IF conf.EnableMessageTracer THEN <<Call("EndSpan", ended, frames)>> ELSE <<>>

\* The read failed: the flag, then RecordErrorAndEndSpan.
ReadFailedCalls(s) == EndSpan(TRUE, Len(written[s]))

\* The end of the session: the flag, then EndCallbackHandler when there is
\* one, then the close frame, then EndSpan.
EndOfSessionCallsCallbackFirst(s) ==
    (IF conf.EndCallbackHandler
     THEN <<Call("EndCallbackHandler", IsWsEnded(ctx[s]), Len(written[s]))>>
     ELSE <<>>)
        \o EndSpan(IsWsEnded(SetWsEnded(ctx[s])), Len(written[s]) + 1)

EndOfSessionCalls(s) ==
    (IF conf.EndCallbackHandler
     THEN <<Call("EndCallbackHandler", IsWsEnded(SetWsEnded(ctx[s])), Len(written[s]))>>
     ELSE <<>>)
        \o EndSpan(IsWsEnded(SetWsEnded(ctx[s])), Len(written[s]) + 1)

\* A pong: EndSpan, and the loop reads on.
PongCalls(s) == EndSpan(IsWsEnded(ctx[s]), Len(written[s]))

\* BizHandler returned (outcome o): EndSpan when it returned nil; an error is
\* recorded on the sub-span and the loop reads on; a panic unwinds Get.
DispatchCalls(s, o) ==
    IF o \in {"ok", "ended"}
    THEN EndSpan(o = "ended" \/ IsWsEnded(ctx[s]), Len(written[s]))
    ELSE <<>>

IterationCalls(s, r, o) ==
    TracerStart(s)
        \o CASE r.err # Nil -> ReadFailedCalls(s)
              [] EndsSession(r) -> EndOfSessionCalls(s)
              [] r.err = Nil /\ ~DefaultIsEndHandler(r.mt, r.data) /\ r.mt = PongMessage ->
                   PongCalls(s)
              [] OTHER -> DispatchCalls(s, o)

\* One iteration: conn.ReadMessage() returns r (a frame only while the read
\* deadline has not passed); the read is classified; o is the outcome of the
\* callback this iteration invokes, if any; then the top of the loop again.
ReadMessage(s, r, o) ==
    /\ pc[s] = "reading"
    /\ Len(readLog[s]) < MaxReads
    /\ r.err = Nil => ~ReadExpired(s)
    /\ readLog' = [readLog EXCEPT ![s] = Append(@, r)]
    /\ trace' = [trace EXCEPT ![s] = @ \o IterationCalls(s, r, o)]
    /\ CASE r.err # Nil -> ReadFailed(s, r)
         [] EndsSession(r) -> EndOfSession(s, r, o)
         [] r.err = Nil /\ ~DefaultIsEndHandler(r.mt, r.data) /\ r.mt = PongMessage ->
              PongReceived(s)
         [] OTHER -> Dispatch(s, r, o)
    /\ UNCHANGED <<conf, tryResult, upg, connChan, errChan, response, started, pinger,
                   pings, now, jh, fw, ph, wg>>

\* The outcomes of the callback the iteration invokes for r.
ReadOutcomes(r) ==
    IF Dispatches(r) THEN BizOutcomes
    ELSE IF EndsSession(r) /\ conf.EndCallbackHandler THEN EndCallbackOutcomes
    ELSE {"none"}

Read(s) == \E r \in ReadResults : \E o \in ReadOutcomes(r) : ReadMessage(s, r, o)

\* ------------------------------------------------ the keepalive goroutine
\* startPing's loop: after time.Sleep(pingPeriod), stop when the ended flag is
\* set ...
PingWake(s) ==
    /\ pinger[s] = "sleep"
    /\ now >= timers[s].wakeAt
    /\ pinger' = [pinger EXCEPT ![s] = IF IsWsEnded(ctx[s]) THEN "stopped" ELSE "write"]
    /\ UNCHANGED <<semaphore, conf, pc, exit, tryResult, releases, upg, connChan, errChan,
                   sock, closes, ctx, response, started, pings, written, readLog,
                   dispatched, endCalls, now, timers, jh, fw, ph, trace, wg>>

\* ... else conn.WriteControl(PingMessage, deadline) with the deadline startPing
\* was given; the write succeeds (ok) or fails, and fails when the socket is
\* closed or the deadline has passed; a failure is only logged. Then the next
\* sleep.
PingWriteStopOnError(s, ok) ==
    /\ pinger[s] = "write"
    /\ Len(pings[s]) < MaxPings
    /\ ok => sock[s] = "open" /\ ~Expired(timers[s].pingDeadline)
    /\ pings' = [pings EXCEPT
                    ![s] = Append(@, [sock |-> sock[s], ended |-> IsWsEnded(ctx[s]),
                                      at |-> now, deadline |-> timers[s].pingDeadline,
                                      ok |-> ok])]
    /\ pinger' = [pinger EXCEPT ![s] = IF ok THEN "sleep" ELSE "stopped"]
    /\ timers' = [timers EXCEPT ![s].wakeAt = now + conf.PingPeriod]
    /\ UNCHANGED <<semaphore, conf, pc, exit, tryResult, releases, upg, connChan, errChan,
                   sock, closes, ctx, response, started, written, readLog, dispatched,
                   endCalls, now, jh, fw, ph, trace, wg>>

PingWrite(s, ok) ==
    /\ pinger[s] = "write"
    /\ Len(pings[s]) < MaxPings
    /\ ok => sock[s] = "open" /\ ~Expired(timers[s].pingDeadline)
    /\ pings' = [pings EXCEPT
                    ![s] = Append(@, [sock |-> sock[s], ended |-> IsWsEnded(ctx[s]),
                                      at |-> now, deadline |-> timers[s].pingDeadline,
                                      ok |-> ok])]
    /\ pinger' = [pinger EXCEPT ![s] = "sleep"]
    /\ timers' = [timers EXCEPT ![s].wakeAt = now + conf.PingPeriod]
    /\ UNCHANGED <<semaphore, conf, pc, exit, tryResult, releases, upg, connChan, errChan,
                   sock, closes, ctx, response, started, written, readLog, dispatched,
                   endCalls, now, jh, fw, ph, trace, wg>>

\* Time passes.
Tick ==
    /\ now < MaxTime
    /\ now' = now + 1
    /\ UNCHANGED <<semaphore, conf, pc, exit, tryResult, releases, upg, connChan, errChan,
                   sock, closes, ctx, response, started, pinger, pings, written, readLog,
                   dispatched, endCalls, timers, jh, fw, ph, trace, wg>>

\* ------------------------------------------- the JSON handler (bizHandler)
DefaultIsEndFunc(mt, data) == mt = CloseMessage \/ mt = -1

\* json.Unmarshal into the request type: an error for a text that is not
\* well-formed JSON, else the request with its Content.
Unmarshal(data) ==
    IF data.wellFormed
    THEN [err |-> Nil, req |-> [Content |-> data.content]]
    ELSE [err |-> "unmarshal", req |-> [Content |-> <<>>]]

\* ve.ValidateDefault of a request whose Content is `binding:"required,minLength=3"`.
ValidateDefault(req) ==
    IF Len(req.Content) = 0 THEN "required"
    ELSE IF Len(req.Content) < MinLength THEN "minLength"
    ELSE Nil

\* buildWsMessage of bizHandlerJson: decode, validate, wrap.
bizHandlerJson(mt, data) ==
    LET u == Unmarshal(data) IN
    IF u.err # Nil THEN [err |-> u.err, msg |-> [mt |-> mt, data |-> u.req]]
    ELSE IF ValidateDefault(u.req) # Nil
         THEN [err |-> ValidateDefault(u.req), msg |-> [mt |-> mt, data |-> u.req]]
         ELSE [err |-> Nil, msg |-> [mt |-> mt, data |-> u.req]]

\* The handler returns: the deferred conn.Close() runs.
JsonReturn(j) == [j EXCEPT !.pc = "done", !.sock = "closed", !.closes = @ + 1]

\* upgrader.Upgrade: the socket, or an error and the handler returns.
JsonUpgrade(ok) ==
    /\ jh.pc = "idle"
    /\ jh' = IF ok THEN [jh EXCEPT !.pc = "starting", !.sock = "open"]
             ELSE [jh EXCEPT !.pc = "done"]
    /\ UNCHANGED <<semaphore, conf, pc, exit, tryResult, releases, upg, connChan, errChan,
                   sock, closes, ctx, response, started, pinger, pings, written, readLog,
                   dispatched, endCalls, now, timers, fw, ph, trace, wg>>

\* initFunc and startFunc: both returned nil (ok), or one returned an error and
\* the handler returns.
JsonStart(ok) ==
    /\ jh.pc = "starting"
    /\ jh' = IF ok THEN [jh EXCEPT !.pc = "reading"] ELSE JsonReturn(jh)
    /\ UNCHANGED <<semaphore, conf, pc, exit, tryResult, releases, upg, connChan, errChan,
                   sock, closes, ctx, response, started, pinger, pings, written, readLog,
                   dispatched, endCalls, now, timers, fw, ph, trace, wg>>

\* A frame that is neither the end, nor a ping, nor a pong, read without
\* error: buildWsMessage, and the loop is left when it fails; else BizHandler
\* (outcome o, an error is only logged) and the loop goes on.
JsonDispatchSkipsBadFrame(j, r, o) ==
    LET m == bizHandlerJson(r.mt, r.data) IN
    IF m.err # Nil THEN j
    ELSE [j EXCEPT !.handled = Append(@, [msg |-> m.msg, res |-> o])]

JsonDispatch(j, r, o) ==
    LET m == bizHandlerJson(r.mt, r.data) IN
    IF m.err # Nil THEN JsonReturn(j)
    ELSE [j EXCEPT !.handled = Append(@, [msg |-> m.msg, res |-> o])]

\* One iteration of the loop of bizHandler; conn.ReadMessage() returns r.
JsonIteration(j, r, o) ==
    IF DefaultIsEndFunc(r.mt, r.data)
    THEN JsonReturn([j EXCEPT !.ended = TRUE,
                              !.endCalls = IF conf.EndCallbackHandler THEN @ + 1 ELSE @])
    ELSE IF r.mt = PingMessage
    THEN [j EXCEPT !.written = Append(@, [mt |-> PongMessage, data |-> "ok"])]
    ELSE IF r.mt = PongMessage
    THEN j
    ELSE IF r.err # Nil
    THEN JsonReturn(j)
    ELSE JsonDispatch(j, r, o)

\* Reads of the JSON handler that reach BizHandler.
JsonDispatches(r) ==
    /\ r.err = Nil
    /\ r.mt \in {TextMessage, BinaryMessage}
    /\ bizHandlerJson(r.mt, r.data).err = Nil

JsonRead(r, o) ==
    /\ jh.pc = "reading"
    /\ ~jh.ended
    /\ Len(jh.reads) < MaxReads
    /\ jh' = JsonIteration([jh EXCEPT !.reads = Append(@, r)], r, o)
    /\ UNCHANGED <<semaphore, conf, pc, exit, tryResult, releases, upg, connChan, errChan,
                   sock, closes, ctx, response, started, pinger, pings, written, readLog,
                   dispatched, endCalls, now, timers, fw, ph, trace, wg>>

\* ------------------------------------------------- WebSocketForward
\* What a read of a relayed socket returns: a text frame, a close frame, or
\* an error (type -1, no payload).
ForwardReadResults ==
    [mt : {TextMessage}, data : Payloads, err : {Nil}]
        \cup [mt : {CloseMessage}, data : {"a"}, err : {Nil}]
        \cup [mt : {NoFrame}, data : {""}, err : {"net"}]

ClosedRead == [mt |-> NoFrame, data |-> "", err |-> "net"]

Pumps == {"down", "up"}

\* The socket a pump reads and the socket it writes.
SourceConn(f, p) == IF p = "down" THEN f.externalConn ELSE f.internalConn

DestConn(f, p) == IF p = "down" THEN f.internalConn ELSE f.externalConn

\* upgrader.Upgrade: the client socket and then the dial, or an error and the
\* handler returns (there is no socket to close).
ForwardUpgrade(ok) ==
    /\ fw.pc = "idle"
    /\ fw' = IF ok THEN [fw EXCEPT !.pc = "dialing", !.externalConn = "open"]
             ELSE [fw EXCEPT !.pc = "done"]
    /\ UNCHANGED <<semaphore, conf, pc, exit, tryResult, releases, upg, connChan, errChan,
                   sock, closes, ctx, response, started, pinger, pings, written, readLog,
                   dispatched, endCalls, now, timers, jh, ph, trace, wg>>

\* WebSocketForward returns: the deferred Close of the upstream socket, when
\* there is one, then that of the client socket.
ForwardReturnLeavesUpstream(f) ==
    [f EXCEPT !.pc = "done",
              !.externalConn = "closed",
              !.externalCloses = @ + 1]

ForwardReturn(f) ==
    [f EXCEPT !.pc = "done",
              !.internalConn = IF @ = "none" THEN @ ELSE "closed",
              !.internalCloses = IF f.internalConn = "none" THEN @ ELSE @ + 1,
              !.externalConn = "closed",
              !.externalCloses = @ + 1]

\* websocket.DefaultDialer.Dial: the upstream socket, needClose stored false,
\* the goroutine started and the handler in its own syncWsMessage; or an error
\* and the handler returns.
ForwardDial(ok) ==
    /\ fw.pc = "dialing"
    /\ fw' = IF ok
             THEN [fw EXCEPT !.pc = "relaying", !.internalConn = "open",
                             !.needClose = FALSE, !.down.at = "top", !.up.at = "top"]
             ELSE ForwardReturn(fw)
    /\ UNCHANGED <<semaphore, conf, pc, exit, tryResult, releases, upg, connChan, errChan,
                   sock, closes, ctx, response, started, pinger, pings, written, readLog,
                   dispatched, endCalls, now, timers, jh, ph, trace, wg>>

\* syncWsMessage, the head of the loop: leave when needClose is set, else
\* block in sourceConn.ReadMessage().
SyncLoopTop(p) ==
    /\ fw[p].at = "top"
    /\ fw' = [fw EXCEPT ![p].at = IF fw.needClose THEN "exited" ELSE "reading"]
    /\ UNCHANGED <<semaphore, conf, pc, exit, tryResult, releases, upg, connChan, errChan,
                   sock, closes, ctx, response, started, pinger, pings, written, readLog,
                   dispatched, endCalls, now, timers, jh, ph, trace, wg>>

\* sourceConn.ReadMessage() returns r: what the peer sent, or an error; only
\* an error once the relay has closed the socket.
SyncRead(p, r) ==
    /\ fw[p].at = "reading"
    /\ Len(fw[p].reads) < MaxRelayReads
    /\ SourceConn(fw, p) = "closed" => r = ClosedRead
    /\ fw' = [fw EXCEPT ![p].at = "read", ![p].got = r, ![p].reads = Append(@, r)]
    /\ UNCHANGED <<semaphore, conf, pc, exit, tryResult, releases, upg, connChan, errChan,
                   sock, closes, ctx, response, started, pinger, pings, written, readLog,
                   dispatched, endCalls, now, timers, jh, ph, trace, wg>>

\* destConn.WriteMessage(mt, message) with what was read (sent: the socket
\* was open; needClose: the flag at the time of the write); then, for a close frame or -1, needClose is stored true and the
\* loop is left.
SyncForwardDropsFrame(f, p) ==
    LET r == f[p].got IN
    [f EXCEPT ![p].got = NoRead,
              ![p].at = IF r.mt = CloseMessage \/ r.mt = -1 THEN "exited" ELSE "top",
              !.needClose = IF r.mt = CloseMessage \/ r.mt = -1 THEN TRUE ELSE @]

SyncForwardStoresAlways(f, p) ==
    LET r == f[p].got IN
    [f EXCEPT ![p].got = NoRead,
              ![p].writes = Append(@, [mt |-> r.mt, data |-> r.data,
                                       sent |-> DestConn(f, p) = "open",
                                       needClose |-> f.needClose]),
              ![p].at = IF r.mt = CloseMessage \/ r.mt = -1 THEN "exited" ELSE "top",
              !.needClose = (r.mt = CloseMessage \/ r.mt = -1)]

SyncForward(f, p) ==
    LET r == f[p].got IN
    [f EXCEPT ![p].got = NoRead,
              ![p].writes = Append(@, [mt |-> r.mt, data |-> r.data,
                                       sent |-> DestConn(f, p) = "open",
                                       needClose |-> f.needClose]),
              ![p].at = IF r.mt = CloseMessage \/ r.mt = -1 THEN "exited" ELSE "top",
              !.needClose = IF r.mt = CloseMessage \/ r.mt = -1 THEN TRUE ELSE @]

SyncWrite(p) ==
    /\ fw[p].at = "read"
    /\ fw' = SyncForward(fw, p)
    /\ UNCHANGED <<semaphore, conf, pc, exit, tryResult, releases, upg, connChan, errChan,
                   sock, closes, ctx, response, started, pinger, pings, written, readLog,
                   dispatched, endCalls, now, timers, jh, ph, trace, wg>>

\* The handler's syncWsMessage has returned: WebSocketForward returns.
ForwardExit ==
    /\ fw.pc = "relaying"
    /\ fw.down.at = "exited"
    /\ fw' = ForwardReturn(fw)
    /\ UNCHANGED <<semaphore, conf, pc, exit, tryResult, releases, upg, connChan, errChan,
                   sock, closes, ctx, response, started, pinger, pings, written, readLog,
                   dispatched, endCalls, now, timers, jh, ph, trace, wg>>

\* ------------------------- the handler with a forward socket (bizHandler)
\* What startFunc and BizHandler can do with the forward socket: attach one
\* with SetForwardConn or not; and return nil or an error.
PeerCallbackOutcomes == [attach : BOOLEAN, ok : BOOLEAN]

SetForwardConn(p) == [p EXCEPT !.forward = IF @ = "none" THEN "open" ELSE @]

GetForwardConn(p) == p.forward

\* The handler returns: the deferred Close of the forward socket when the
\* defer was registered (deferred) and a forward socket is attached, then
\* conn.Close() when there is a socket, then the permit is released.
PeerUnwind(p, deferred) ==
    [p EXCEPT !.pc = "done",
              !.forward = IF deferred /\ GetForwardConn(p) # "none" THEN "closed" ELSE @,
              !.forwardCloses = IF deferred /\ GetForwardConn(p) # "none" THEN @ + 1 ELSE @,
              !.sock = IF @ = "none" THEN @ ELSE "closed",
              !.closes = IF p.sock = "none" THEN @ ELSE @ + 1]

PeerReturn(p, deferred) ==
    /\ ph' = PeerUnwind(p, deferred)
    /\ semaphore' = IF p.permit THEN Release(semaphore) ELSE semaphore

\* The admission, as in Get; then initFunc (ok: it returned nil) and
\* upgrader.Upgrade (ok: it returned the socket).
PeerEnter(ok) ==
    /\ ph.pc = "idle"
    /\ IF ~semaphore.nil /\ ~TryAcquire(semaphore)
       THEN /\ ph' = [ph EXCEPT !.pc = "done"]
            /\ UNCHANGED semaphore
       ELSE IF ok
       THEN /\ ph' = [ph EXCEPT !.pc = "starting", !.sock = "open",
                                !.permit = ~semaphore.nil]
            /\ semaphore' = IF semaphore.nil THEN semaphore ELSE Acquire(semaphore)
       ELSE /\ ph' = [ph EXCEPT !.pc = "done"]
            /\ UNCHANGED semaphore
    /\ UNCHANGED <<conf, pc, exit, tryResult, releases, upg, connChan, errChan,
                   sock, closes, ctx, response, started, pinger, pings, written, readLog,
                   dispatched, endCalls, now, timers, jh, fw, trace, wg>>

\* startFunc (outcome o): an error returns before the Close of the forward
\* socket is deferred; nil registers that defer and enters the loop.
PeerStart(o) ==
    /\ ph.pc = "starting"
    /\ LET p == IF o.attach THEN SetForwardConn(ph) ELSE ph IN
       IF o.ok
       THEN /\ ph' = [p EXCEPT !.pc = "reading"]
            /\ UNCHANGED semaphore
       ELSE PeerReturn(p, FALSE)
    /\ UNCHANGED <<conf, pc, exit, tryResult, releases, upg, connChan, errChan,
                   sock, closes, ctx, response, started, pinger, pings, written, readLog,
                   dispatched, endCalls, now, timers, jh, fw, trace, wg>>

\* One iteration of the loop: the read returns r; a close frame, -1 (also
\* what an error carries) ends the session, with endCallback when configured
\* and a forward socket is attached; a ping is answered, a pong dropped; a
\* frame that does not decode leaves the loop; any other goes to BizHandler
\* (outcome o), which may attach a forward socket.
PeerRead(r, o) ==
    /\ ph.pc = "reading"
    /\ ph.reads < MaxReads
    /\ LET p == [ph EXCEPT !.reads = @ + 1] IN
       IF DefaultIsEndFunc(r.mt, r.data)
       THEN PeerReturn([p EXCEPT !.ended = TRUE,
                                 !.endCalls = IF conf.EndCallbackHandler
                                                 /\ GetForwardConn(p) # "none"
                                              THEN @ + 1 ELSE @], TRUE)
       ELSE IF r.mt \in {PingMessage, PongMessage}
       THEN /\ ph' = p
            /\ UNCHANGED semaphore
       ELSE IF r.err # Nil \/ bizHandlerJson(r.mt, r.data).err # Nil
       THEN PeerReturn(p, TRUE)
       ELSE /\ ph' = [(IF o.attach THEN SetForwardConn(p) ELSE p) EXCEPT !.handled = @ + 1]
            /\ UNCHANGED semaphore
    /\ UNCHANGED <<conf, pc, exit, tryResult, releases, upg, connChan, errChan,
                   sock, closes, ctx, response, started, pinger, pings, written, readLog,
                   dispatched, endCalls, now, timers, jh, fw, trace, wg>>

\* ------------------------------------- the entries keyed by a forward mark
\* A caller stores a forward socket, a timestamp or the ended flag under a
\* forward mark in the context of session 1.
StoreForwardConn(m, conn) ==
    /\ ctx' = [ctx EXCEPT ![1] = SetForwardConnOf(@, m, conn)]
    /\ UNCHANGED <<semaphore, conf, pc, exit, tryResult, releases, upg, connChan, errChan,
                   sock, closes, response, started, pinger, pings, written, readLog,
                   dispatched, endCalls, now, timers, jh, fw, ph, trace, wg>>

StoreForwardConnTimestamp(m, ts) ==
    /\ ctx' = [ctx EXCEPT ![1] = SetForwardConnTimestamp(@, m, ts)]
    /\ UNCHANGED <<semaphore, conf, pc, exit, tryResult, releases, upg, connChan, errChan,
                   sock, closes, response, started, pinger, pings, written, readLog,
                   dispatched, endCalls, now, timers, jh, fw, ph, trace, wg>>

StoreForwardWsEnded(m, ended) ==
    /\ ctx' = [ctx EXCEPT ![1] = IF ended THEN SetForwardWsEnded(@, m)
                                 ELSE UnsetForwardWsEnded(@, m)]
    /\ UNCHANGED <<semaphore, conf, pc, exit, tryResult, releases, upg, connChan, errChan,
                   sock, closes, response, started, pinger, pings, written, readLog,
                   dispatched, endCalls, now, timers, jh, fw, ph, trace, wg>>

\* ------------------------------------------------------ the wait group
\* InitWaitGroup: a new sync.WaitGroup, stored under WaitGroupKey in place of
\* any earlier one.
NewWaitGroup == [counter |-> 0, adds |-> 0, dones |-> 0]

InitWaitGroup(w) ==
    [w EXCEPT !.groups = Append(@, NewWaitGroup), !.key = Len(w.groups) + 1]

\* GetWaitGroup: the wait group of the context, 0 for nil.
GetWaitGroup(w) == w.key

\* IncrWaitGroup: waitGroup.Add(1) when there is a wait group.
IncrWaitGroup(w) ==
    IF GetWaitGroup(w) # 0
    THEN [w EXCEPT !.groups[GetWaitGroup(w)].counter = @ + 1,
                   !.groups[GetWaitGroup(w)].adds = @ + 1]
    ELSE w

\* DoneWaitGroup: waitGroup.Done() when there is a wait group; Done() on a
\* counter of zero panics.
DoneWaitGroup(w) ==
    IF GetWaitGroup(w) # 0
    THEN IF w.groups[GetWaitGroup(w)].counter = 0
         THEN [w EXCEPT !.panicked = TRUE]
         ELSE [w EXCEPT !.groups[GetWaitGroup(w)].counter = @ - 1,
                        !.groups[GetWaitGroup(w)].dones = @ + 1]
    ELSE w

\* WaitGroupAllDone: waitGroup.Wait() on the wait group of the context, or the
\* return at once when there is none.
WaitGroupAllDone(w) ==
    IF GetWaitGroup(w) # 0
    THEN [w EXCEPT !.waiter = [at |-> "waiting", on |-> GetWaitGroup(w),
                               adds |-> 0, dones |-> 0]]
    ELSE [w EXCEPT !.waiter.at = "returned"]

\* waitGroup.Wait() returns when the counter is zero.
WaitReturnsAtOnce(g) == TRUE

Wait(g) == g.counter = 0

CallInitWaitGroup ==
    /\ ~wg.panicked
    /\ Len(wg.groups) < MaxWaitGroups
    /\ wg' = InitWaitGroup(wg)
    /\ UNCHANGED <<semaphore, conf, pc, exit, tryResult, releases, upg, connChan, errChan,
                   sock, closes, ctx, response, started, pinger, pings, written, readLog,
                   dispatched, endCalls, now, timers, jh, fw, ph, trace>>

CallIncrWaitGroup ==
    /\ ~wg.panicked
    /\ GetWaitGroup(wg) # 0 => wg.groups[GetWaitGroup(wg)].adds < MaxAdds
    /\ wg' = IncrWaitGroup(wg)
    /\ UNCHANGED <<semaphore, conf, pc, exit, tryResult, releases, upg, connChan, errChan,
                   sock, closes, ctx, response, started, pinger, pings, written, readLog,
                   dispatched, endCalls, now, timers, jh, fw, ph, trace>>

CallDoneWaitGroup ==
    /\ ~wg.panicked
    /\ wg' = DoneWaitGroup(wg)
    /\ UNCHANGED <<semaphore, conf, pc, exit, tryResult, releases, upg, connChan, errChan,
                   sock, closes, ctx, response, started, pinger, pings, written, readLog,
                   dispatched, endCalls, now, timers, jh, fw, ph, trace>>

CallWaitGroupAllDone ==
    /\ ~wg.panicked
    /\ wg.waiter.at = "idle"
    /\ wg' = WaitGroupAllDone(wg)
    /\ UNCHANGED <<semaphore, conf, pc, exit, tryResult, releases, upg, connChan, errChan,
                   sock, closes, ctx, response, started, pinger, pings, written, readLog,
                   dispatched, endCalls, now, timers, jh, fw, ph, trace>>

\* The Wait() of WaitGroupAllDone returns; the waiter has seen what its wait
\* group had received by then.
WaitReturns ==
    /\ ~wg.panicked
    /\ wg.waiter.at = "waiting"
    /\ Wait(wg.groups[wg.waiter.on])
    /\ wg' = [wg EXCEPT !.waiter = [at |-> "returned", on |-> wg.waiter.on,
                                    adds |-> wg.groups[wg.waiter.on].adds,
                                    dones |-> wg.groups[wg.waiter.on].dones]]
    /\ UNCHANGED <<semaphore, conf, pc, exit, tryResult, releases, upg, connChan, errChan,
                   sock, closes, ctx, response, started, pinger, pings, written, readLog,
                   dispatched, endCalls, now, timers, jh, fw, ph, trace>>

\* ----------------------------------------------------------------- Next
\* One request, served from its arrival to the return of the handler, with
\* the clock standing still.
Next ==
    \/ GetEnter(1)
    \/ \E ok \in BOOLEAN : UpgradeGoroutine(1, ok)
    \/ SelectErr(1)
    \/ SelectTimeout(1)
    \/ \E o \in StartOutcomes : SelectConn(1, o)
    \/ Read(1)

Spec == Init /\ [][Next]_vars

\* Concurrent requests at the admission gate, whose clients send nothing: the
\* handlers run up to the blocking read.
NextAdmission ==
    \/ \E s \in Sessions : GetEnter(s)
    \/ \E s \in Sessions : \E ok \in BOOLEAN : UpgradeGoroutine(s, ok)
    \/ \E s \in Sessions : SelectErr(s)
    \/ \E s \in Sessions : SelectTimeout(s)
    \/ \E s \in Sessions : \E o \in StartOutcomes : SelectConn(s, o)

SpecAdmission == Init /\ [][NextAdmission]_vars

\* One request while time passes: its deadlines and its keepalive goroutine.
\* The client sends text, pongs and a close frame, or the read fails; the
\* callbacks succeed, StartHandler fails or BizHandler panics.
KeepaliveReadResults ==
    [mt : {TextMessage, PongMessage, CloseMessage}, data : {"a"}, err : {Nil}]
        \cup [mt : {NoFrame}, data : {""}, err : {"net"}]

ReadKeepalive(s) ==
    \E r \in KeepaliveReadResults :
        \E o \in (IF Dispatches(r) THEN {"ok", "panic"} ELSE {"none"}) : ReadMessage(s, r, o)

NextKeepalive ==
    \/ GetEnter(1)
    \/ \E ok \in BOOLEAN : UpgradeGoroutine(1, ok)
    \/ SelectErr(1)
    \/ SelectTimeout(1)
    \/ \E o \in {"ok", "err"} : SelectConn(1, o)
    \/ ReadKeepalive(1)
    \/ PingWake(1)
    \/ \E ok \in BOOLEAN : PingWrite(1, ok)
    \/ Tick

SpecKeepalive == InitKeepalive /\ [][NextKeepalive]_vars

\* One request served by the JSON handler.
NextJson ==
    \/ \E ok \in BOOLEAN : JsonUpgrade(ok)
    \/ \E ok \in BOOLEAN : JsonStart(ok)
    \/ \E r \in JsonReadResults :
          \E o \in (IF JsonDispatches(r) THEN JsonBizOutcomes ELSE {"none"}) : JsonRead(r, o)

SpecJson == Init /\ [][NextJson]_vars

\* One request relayed by WebSocketForward.
InitForward ==
    /\ semaphore \in {NilSemaphore} \cup {InitWsConnLimit(l) : l \in 0..MaxLimit}
    /\ conf = [PingPeriod |-> 0, EndCallbackHandler |-> FALSE, PongWait |-> 0,
               WriteWait |-> 0, EnableMessageTracer |-> FALSE]
    /\ InitSessions

NextForward ==
    \/ \E ok \in BOOLEAN : ForwardUpgrade(ok)
    \/ \E ok \in BOOLEAN : ForwardDial(ok)
    \/ \E p \in Pumps : SyncLoopTop(p)
    \/ \E p \in Pumps : \E r \in ForwardReadResults : SyncRead(p, r)
    \/ \E p \in Pumps : SyncWrite(p)
    \/ ForwardExit

SpecForward == InitForward /\ [][NextForward]_vars

\* One request that the router hands either to Get or to WebSocketForward.
NextRouted ==
    \/ fw.pc = "idle" /\ NextKeepalive
    \/ pc[1] = "idle" /\ NextForward

\* Its routes: the keepalive durations, no write deadline, no semaphore.
InitRouted ==
    /\ semaphore = NilSemaphore
    /\ conf \in [PingPeriod : PingPeriods, EndCallbackHandler : {FALSE},
                 PongWait : PongWaits, WriteWait : {0}, EnableMessageTracer : {FALSE}]
    /\ InitSessions

SpecRouted == InitRouted /\ [][NextRouted]_vars

\* One request served by the handler with a forward socket.
NextPeer ==
    \/ \E ok \in BOOLEAN : PeerEnter(ok)
    \/ \E o \in PeerCallbackOutcomes : PeerStart(o)
    \/ \E r \in JsonReadResults :
          \E o \in (IF JsonDispatches(r) THEN PeerCallbackOutcomes
                    ELSE {[attach |-> FALSE, ok |-> TRUE]}) : PeerRead(r, o)

SpecPeer == Init /\ [][NextPeer]_vars

\* One request served by Get with per-message tracing switched on or off, no
\* semaphore and no keepalive.
InitTraced ==
    /\ semaphore = NilSemaphore
    /\ conf \in [PingPeriod : {0}, EndCallbackHandler : BOOLEAN, PongWait : {0},
                 WriteWait : {0}, EnableMessageTracer : BOOLEAN]
    /\ InitSessions

SpecTraced == InitTraced /\ [][Next]_vars

\* A context whose callers use the accessors keyed by a forward mark.
InitContext ==
    /\ semaphore = NilSemaphore
    /\ conf = [PingPeriod |-> 0, EndCallbackHandler |-> FALSE, PongWait |-> 0,
               WriteWait |-> 0, EnableMessageTracer |-> FALSE]
    /\ InitSessions

NextContext ==
    \/ \E m \in Marks : \E conn \in ForwardConns : StoreForwardConn(m, conn)
    \/ \E m \in Marks : \E ts \in Timestamps : StoreForwardConnTimestamp(m, ts)
    \/ \E m \in Marks : \E ended \in BOOLEAN : StoreForwardWsEnded(m, ended)

SpecContext == InitContext /\ [][NextContext]_vars

\* A context whose goroutines use the wait-group helpers.
NextWaitGroup ==
    \/ CallInitWaitGroup
    \/ CallIncrWaitGroup
    \/ CallDoneWaitGroup
    \/ CallWaitGroupAllDone
    \/ WaitReturns

SpecWaitGroup == InitContext /\ [][NextWaitGroup]_vars


\* ============================================================== claims
\* The sessions that hold a permit: admitted by TryAcquire, handler not returned.
Outstanding == {s \in Sessions : tryResult[s] = "true" /\ pc[s] # "done"}

IsDataFrame(r) == r.err = Nil /\ r.mt \in {TextMessage, BinaryMessage}

IsCloseFrame(r) == r.err = Nil /\ r.mt = CloseMessage

\* C1: a handler calls semaphore.Release() exactly once by the time it returns
\* when its TryAcquire returned true, and never when TryAcquire returned false
\* or was not called; this on every exit path.
C1_ReleaseExactlyOnce ==
    \A s \in Sessions :
        /\ releases[s] <= 1
        /\ (tryResult[s] # "true" => releases[s] = 0)
        /\ (pc[s] # "done" => releases[s] = 0)
        /\ (pc[s] = "done" /\ tryResult[s] = "true" => releases[s] = 1)

C1_Witness ==
    \E s \in Sessions :
        /\ pc[s] = "done"
        /\ exit[s] = "readError"
        /\ tryResult[s] = "true"
        /\ releases[s] = 1

\* C2: with a limit L >= 1 the handlers that passed TryAcquire and have not
\* returned never number more than L; with L = 1 a request that arrives while
\* another is being served gets the SYSTEM_BUSY response and is not upgraded.
C2_AdmissionBound ==
    /\ [](~semaphore.nil /\ semaphore.limit >= 1
            => Cardinality(Outstanding) <= semaphore.limit)
    /\ [][\A s \in Sessions :
            (/\ ~semaphore.nil
             /\ semaphore.limit = 1
             /\ pc[s] = "idle"
             /\ pc'[s] # "idle"
             /\ \E t \in Sessions \ {s} : pc[t] \notin {"idle", "done"})
            => (/\ response'[s] = BusyResponse
                /\ pc'[s] = "done"
                /\ upg'[s] = "none"
                /\ Cardinality({t \in Sessions : pc'[t] \notin {"idle", "done"}}) = 1)]_vars

C2_Witness ==
    /\ ~semaphore.nil
    /\ semaphore.limit = 1
    /\ \E s, t \in Sessions :
        /\ s # t
        /\ pc[s] = "upgrading"
        /\ tryResult[s] = "true"
        /\ exit[t] = "busy"

\* C3: a request that arrives while L permits are outstanding is refused by
\* TryAcquire, and one that arrives while fewer are outstanding (a session has
\* returned and released its permit) is admitted.
C3_PermitReuse ==
    [][\A s \in Sessions :
          (~semaphore.nil /\ pc[s] = "idle" /\ pc'[s] # "idle")
          => (/\ Cardinality(Outstanding) = semaphore.limit => tryResult'[s] = "false"
              /\ Cardinality(Outstanding) < semaphore.limit => tryResult'[s] = "true")]_vars

C3_Witness ==
    /\ ~semaphore.nil
    /\ semaphore.limit = 1
    /\ \E a, b, c \in Sessions :
        /\ exit[a] = "busy"
        /\ pc[b] = "done"
        /\ releases[b] = 1
        /\ tryResult[c] = "true"
        /\ pc[c] # "done"

\* C4: with no semaphore, or with one of limit 0, no request is refused as busy.
C4_UnlimitedAdmitsAll ==
    (semaphore.nil \/ semaphore.limit = 0)
        => \A s \in Sessions : tryResult[s] # "false" /\ exit[s] # "busy"

\* C5: a handler whose TryAcquire returned false has answered SYSTEM_BUSY and
\* returned; it started no upgrade, got no socket, called neither StartHandler
\* nor BizHandler and started no keepalive goroutine.
C5_BusyDoesNothing ==
    \A s \in Sessions :
        tryResult[s] = "false"
        => /\ pc[s] = "done"
           /\ exit[s] = "busy"
           /\ response[s] = BusyResponse
           /\ upg[s] = "none"
           /\ sock[s] = "none"
           /\ GetConn(ctx[s]) = Nil
           /\ started[s] = "none"
           /\ pinger[s] = "none"
           /\ dispatched[s] = <<>>

C5_Witness ==
    \E s, t \in Sessions :
        /\ exit[s] = "busy"
        /\ response[s] = BusyResponse
        /\ pc[t] = "reading"

\* C6: the socket the handler received from the upgrade is closed exactly once
\* when the handler has returned, whatever the exit path, and not before.
C6_SocketClosedOnce ==
    \A s \in Sessions :
        /\ closes[s] <= 1
        /\ (pc[s] # "done" => closes[s] = 0)
        /\ (pc[s] = "done" /\ GetConn(ctx[s]) # Nil => closes[s] = 1 /\ sock[s] = "closed")

C6_Witness ==
    \E s \in Sessions :
        /\ pc[s] = "done"
        /\ exit[s] = "bizPanic"
        /\ closes[s] = 1
        /\ sock[s] = "closed"

\* C7: no upgraded socket stays open once the handler has returned (the socket
\* of an upgrade that completes after the timeout is closed).
C7_NoLeakedSocket == \A s \in Sessions : pc[s] = "done" => sock[s] # "open"

\* C8: once the error response of a failed upgrade is written, the handler has
\* returned and has called none of SetConn, StartHandler, startPing, BizHandler,
\* nor read a frame, also when the upgrade goroutine completes afterwards.
C8_UpgradeFailureAborts ==
    \A s \in Sessions :
        (exit[s] \in {"upgradeError", "upgradeTimeout"} \/ response[s] = UpgradeFailedResponse)
        => /\ pc[s] = "done"
           /\ exit[s] \in {"upgradeError", "upgradeTimeout"}
           /\ response[s] = UpgradeFailedResponse
           /\ GetConn(ctx[s]) = Nil
           /\ started[s] = "none"
           /\ pinger[s] = "none"
           /\ readLog[s] = <<>>
           /\ dispatched[s] = <<>>

C8_Witness ==
    \E s \in Sessions :
        /\ exit[s] = "upgradeTimeout"
        /\ response[s] = UpgradeFailedResponse
        /\ upg[s] = "done"
        /\ sock[s] = "open"

C10_DispatchInOrder ==
    \A s \in Sessions :
        LET n == Len(readLog[s]) IN
        (/\ pc[s] = "done"
         /\ n >= 1
         /\ IsCloseFrame(readLog[s][n])
         /\ \A i \in 1..(n - 1) : IsDataFrame(readLog[s][i]))
        => /\ Len(dispatched[s]) = n - 1
           /\ \A i \in 1..(n - 1) :
                dispatched[s][i].msg = [mt |-> readLog[s][i].mt, data |-> readLog[s][i].data]

C10_Witness ==
    \E s \in Sessions :
        /\ pc[s] = "done"
        /\ Len(readLog[s]) = 3
        /\ readLog[s][1] = [mt |-> TextMessage, data |-> "b", err |-> Nil]
        /\ readLog[s][2] = [mt |-> TextMessage, data |-> "a", err |-> Nil]
        /\ IsCloseFrame(readLog[s][3])
        /\ Len(dispatched[s]) = 2


\* The first n reads of a log that went to BizHandler: frames read without
\* error that are neither a close frame, nor the sentinel -1, nor a pong.
NumDispatching(log, n) ==
    Cardinality({k \in 1..n :
                    /\ log[k].err = Nil
                    /\ log[k].mt \notin {CloseMessage, NoFrame, PongMessage}})

IsEndFrame(r) == r.err = Nil /\ r.mt \in {CloseMessage, NoFrame}

\* C11: a frame classified as the end of the session (a close frame or the
\* sentinel -1, read without error) is the last read of its session, the
\* handler has returned, and BizHandler was invoked neither for that frame nor
\* after it: only for the frames read before it.
C11_NoDispatchAfterEnd ==
    \A s \in Sessions :
        \A i \in 1..Len(readLog[s]) :
            IsEndFrame(readLog[s][i])
            => /\ i = Len(readLog[s])
               /\ pc[s] = "done"
               /\ Len(dispatched[s]) = NumDispatching(readLog[s], i - 1)

C11_Witness ==
    \E s \in Sessions :
        /\ Len(readLog[s]) = 2
        /\ IsDataFrame(readLog[s][1])
        /\ readLog[s][2] = [mt |-> NoFrame, data |-> "a", err |-> Nil]
        /\ Len(dispatched[s]) = 1
        /\ exit[s] = "endFrame"

\* C12: a read that returned an error is the last read of its session: the
\* ended flag is set, the handler has left the loop and returned, and
\* BizHandler was not invoked for that read.
C12_ReadErrorEnds ==
    \A s \in Sessions :
        \A i \in 1..Len(readLog[s]) :
            readLog[s][i].err # Nil
            => /\ i = Len(readLog[s])
               /\ IsWsEnded(ctx[s])
               /\ pc[s] = "done"
               /\ exit[s] = "readError"
               /\ Len(dispatched[s]) = NumDispatching(readLog[s], i - 1)

C12_Witness ==
    \E s \in Sessions :
        /\ Len(readLog[s]) = 2
        /\ IsDataFrame(readLog[s][1])
        /\ readLog[s][2].err = "net"
        /\ Len(dispatched[s]) = 1
        /\ IsWsEnded(ctx[s])
        /\ exit[s] = "readError"

\* C13: when the last read of a session is an end-of-session frame, the ended
\* flag is set, EndCallbackHandler was invoked once if configured and not at
\* all otherwise (whatever it returned), exactly one frame was written, a close
\* frame with the payload of the frame read, and the handler has left the loop
\* and closed the socket.
C13_EndFrameHandling ==
    \A s \in Sessions :
        LET n == Len(readLog[s]) IN
        (n >= 1 /\ IsEndFrame(readLog[s][n]))
        => /\ IsWsEnded(ctx[s])
           /\ Len(endCalls[s]) = (IF conf.EndCallbackHandler THEN 1 ELSE 0)
           /\ Len(written[s]) = 1
           /\ written[s][1].mt = CloseMessage
           /\ written[s][1].data = readLog[s][n].data
           /\ pc[s] = "done"
           /\ exit[s] = "endFrame"
           /\ closes[s] = 1

C13_Witness ==
    \E s \in Sessions :
        /\ Len(readLog[s]) = 2
        /\ IsCloseFrame(readLog[s][2])
        /\ endCalls[s] = <<"err">>
        /\ Len(written[s]) = 1
        /\ written[s][1].mt = CloseMessage
        /\ exit[s] = "endFrame"

\* C14: with EndCallbackHandler configured, a handler that entered the loop
\* and returned because the session terminated (an end-of-session frame or a
\* read error) has invoked the callback exactly once.
C14_EndCallbackOnEveryEnd ==
    \A s \in Sessions :
        (/\ conf.EndCallbackHandler
         /\ started[s] = "ok"
         /\ pc[s] = "done"
         /\ exit[s] \in {"endFrame", "readError"})
        => Len(endCalls[s]) = 1

\* C15: after BizHandler returned an error for the frame last read, the ended
\* flag is unset, the socket is open and unclosed, and the handler is back in
\* the read of the next frame.
C15_BizErrorContinues ==
    \A s \in Sessions :
        LET n == Len(readLog[s])
            m == Len(dispatched[s])
        IN (/\ n >= 1
            /\ m >= 1
            /\ NumDispatching(readLog[s], n) = NumDispatching(readLog[s], n - 1) + 1
            /\ dispatched[s][m].res = "err")
           => /\ ~IsWsEnded(ctx[s])
              /\ sock[s] = "open"
              /\ closes[s] = 0
              /\ pc[s] = "reading"
              /\ exit[s] = "none"

C15_Witness ==
    \E s \in Sessions :
        /\ Len(dispatched[s]) = 2
        /\ dispatched[s][1].res = "err"
        /\ dispatched[s][2].res = "ok"
        /\ pc[s] = "reading"
        /\ sock[s] = "open"

\* The data frames of the JSON handler, and those whose text bizHandlerJson
\* rejects: not JSON, or a content shorter than the validation allows.
JsonIsData(r) == r.err = Nil /\ r.mt \in {TextMessage, BinaryMessage}

JsonIsBad(r) == JsonIsData(r) /\ (~r.data.wellFormed \/ Len(r.data.content) < MinLength)

\* C16: in the JSON handler, a data frame that fails to decode or validate is
\* the last read of the session: BizHandler was invoked for the data frames
\* before it, once each and in order (k-1 times when it is the k-th data
\* frame), the loop is left and the socket closed.
C16_DecodeFailureEnds ==
    \A i \in 1..Len(jh.reads) :
        JsonIsBad(jh.reads[i])
        => LET before == SelectSeq(SubSeq(jh.reads, 1, i - 1), JsonIsData) IN
           /\ i = Len(jh.reads)
           /\ jh.pc = "done"
           /\ jh.sock = "closed"
           /\ jh.closes = 1
           /\ Len(jh.handled) = Len(before)
           /\ \A k \in 1..Len(before) :
                /\ jh.handled[k].msg.mt = before[k].mt
                /\ jh.handled[k].msg.data.Content = before[k].data.content

C16_Witness ==
    /\ Len(jh.reads) = 3
    /\ Len(jh.handled) = 2
    /\ jh.handled[1].res = "err"
    /\ jh.reads[3].mt = TextMessage
    /\ jh.reads[3].data = [wellFormed |-> TRUE, content |-> <<"1", "2">>]
    /\ jh.pc = "done"
    /\ jh.sock = "closed"

IsPong(r) == r.err = Nil /\ r.mt = PongMessage

\* C17: the iteration that reads a pong invokes no BizHandler and does not end
\* the session (flag unset, socket open, handler back in the read); and with
\* PongWait > 0 it leaves the read deadline at the time of the pong + PongWait.
C17_PongExtendsDeadline ==
    [][\A s \in Sessions :
          (/\ Len(readLog'[s]) = Len(readLog[s]) + 1
           /\ IsPong(readLog'[s][Len(readLog'[s])]))
          => /\ dispatched'[s] = dispatched[s]
             /\ endCalls'[s] = endCalls[s]
             /\ ~IsWsEnded(ctx'[s])
             /\ sock'[s] = "open"
             /\ pc'[s] = "reading"
             /\ (conf.PongWait > 0
                    => timers'[s].readDeadline = now + conf.PongWait)]_vars

C17_Witness ==
    \E s \in Sessions :
        /\ conf.PongWait > 0
        /\ conf.PingPeriod > 0
        /\ pings[s] = <<>>
        /\ timers[s].wakeAt <= now
        /\ Len(readLog[s]) >= 1
        /\ IsPong(readLog[s][Len(readLog[s])])
        /\ timers[s].readDeadline = now + conf.PongWait
        /\ pc[s] = "reading"

C19_KeepaliveWorker ==
    /\ [](\A s \in Sessions :
            /\ conf.PingPeriod = 0 => (pinger[s] = "none" /\ pings[s] = <<>>)
            /\ (conf.PingPeriod > 0 /\ started[s] \in {"ok", "okEnded"})
                  => pinger[s] # "none"
            /\ pinger[s] = "stopped" => IsWsEnded(ctx[s])
            /\ \A i \in 2..Len(pings[s]) :
                  pings[s][i].at >= pings[s][i - 1].at + conf.PingPeriod)
    /\ [][\A s \in Sessions :
            (/\ Len(pings'[s]) = Len(pings[s]) + 1
             /\ ~pings'[s][Len(pings'[s])].ok)
            => /\ pinger'[s] = "sleep"
               /\ timers'[s].wakeAt = now + conf.PingPeriod
               /\ ctx'[s] = ctx[s]
               /\ sock'[s] = sock[s]
               /\ closes'[s] = closes[s]
               /\ pc'[s] = pc[s]]_vars

C19_Witness ==
    \E s \in Sessions :
        /\ Len(pings[s]) = 2
        /\ ~pings[s][1].ok
        /\ pings[s][1].sock = "open"
        /\ pings[s][2].ok
        /\ pings[s][2].at = pings[s][1].at + conf.PingPeriod
        /\ ~IsWsEnded(ctx[s])
        /\ sock[s] = "open"

\* C20: with WriteWait > 0 every ping and every close acknowledgement is
\* written with a deadline of the time of that write + WriteWait, so never
\* with a deadline earlier than the write.
C20_WriteDeadlinePerWrite ==
    conf.WriteWait > 0
    => \A s \in Sessions :
          /\ \A i \in 1..Len(pings[s]) :
                /\ pings[s][i].deadline = pings[s][i].at + conf.WriteWait
                /\ pings[s][i].deadline >= pings[s][i].at
          /\ \A i \in 1..Len(written[s]) :
                written[s][i].mt = CloseMessage
                => /\ written[s][i].deadline = written[s][i].at + conf.WriteWait
                   /\ written[s][i].deadline >= written[s][i].at

\* C21: with PongWait > 0, a read that returns once the read deadline has
\* passed (no frame for longer than PongWait since the deadline was last set)
\* returns an error: the ended flag is set, the handler leaves the loop and
\* returns, and BizHandler is not invoked for that read.
C21_ReadDeadlineExpiry ==
    [][\A s \in Sessions :
          (/\ conf.PongWait > 0
           /\ timers[s].readDeadline # NoDeadline
           /\ timers[s].readDeadline < now
           /\ Len(readLog'[s]) = Len(readLog[s]) + 1)
          => /\ readLog'[s][Len(readLog'[s])].err # Nil
             /\ IsWsEnded(ctx'[s])
             /\ pc'[s] = "done"
             /\ exit'[s] = "readError"
             /\ dispatched'[s] = dispatched[s]]_vars

C21_Witness ==
    \E s \in Sessions :
        /\ conf.PongWait > 0
        /\ timers[s].readDeadline < now
        /\ Len(readLog[s]) = 2
        /\ IsDataFrame(readLog[s][1])
        /\ readLog[s][2].err = "net"
        /\ Len(dispatched[s]) = 1
        /\ IsWsEnded(ctx[s])
        /\ exit[s] = "readError"

\* What a pump of the relay has written mirrors what it has read, frame by
\* frame: the same type and payload, in read order.
Mirrors(pump) ==
    /\ Len(pump.writes) = Len(pump.reads) - (IF pump.at = "read" THEN 1 ELSE 0)
    /\ \A i \in 1..Len(pump.writes) :
          /\ pump.writes[i].mt = pump.reads[i].mt
          /\ pump.writes[i].data = pump.reads[i].data

IsTextRead(r) == r.err = Nil /\ r.mt = TextMessage

\* C22: in WebSocketForward each pump writes what it read to the other socket,
\* same type and payload, in read order, and the frames read from the client
\* are written while the upstream socket is open; when the client sent three
\* data frames and a close frame and upstream sent nothing, the four frames
\* have been written upstream in order, and once WebSocketForward has returned
\* both sockets are closed.
C22_RelayForwardsInOrder ==
    /\ Mirrors(fw.down)
    /\ Mirrors(fw.up)
    /\ \A i \in 1..Len(fw.down.writes) : fw.down.writes[i].sent
    /\ (/\ Len(fw.down.reads) = 4
        /\ \A i \in 1..3 : IsTextRead(fw.down.reads[i])
        /\ IsCloseFrame(fw.down.reads[4])
        /\ \A i \in 1..Len(fw.up.reads) : fw.up.reads[i].err # Nil
        /\ fw.down.at = "exited")
       => /\ Len(fw.down.writes) = 4
          /\ fw.needClose
          /\ fw.pc \in {"relaying", "done"}
          /\ (fw.pc = "done"
                => fw.externalConn = "closed" /\ fw.internalConn = "closed")

C22_Witness ==
    /\ Len(fw.down.reads) = 4
    /\ fw.down.reads[1] = [mt |-> TextMessage, data |-> "a", err |-> Nil]
    /\ fw.down.reads[2] = [mt |-> TextMessage, data |-> "b", err |-> Nil]
    /\ fw.down.reads[3] = [mt |-> TextMessage, data |-> "a", err |-> Nil]
    /\ IsCloseFrame(fw.down.reads[4])
    /\ Len(fw.down.writes) = 4
    /\ fw.down.writes[2].data = "b"
    /\ fw.up.reads = <<ClosedRead>>
    /\ fw.up.at = "exited"
    /\ fw.pc = "done"
    /\ fw.externalConn = "closed"
    /\ fw.internalConn = "closed"

\* C23: the relay is never in a state where one pump has exited, the other is
\* blocked in the read of a socket that is open, and the relay itself has no
\* step left that closes a socket.
C23_NoStuckRelay ==
    ~(/\ fw.pc = "relaying"
      /\ fw.up.at = "exited"
      /\ fw.down.at = "reading"
      /\ fw.externalConn = "open"
      /\ fw.internalConn = "open")

\* C24: WebSocketForward closes no socket before it returns, and when it has
\* returned each socket it obtained has been closed exactly once, whichever
\* way it returned: failed upgrade, failed dial, or the end of the relay.
C24_RelaySocketsClosedOnce ==
    /\ fw.externalCloses <= 1
    /\ fw.internalCloses <= 1
    /\ fw.pc # "done" => (fw.externalCloses = 0 /\ fw.internalCloses = 0)
    /\ fw.pc = "done"
         => /\ fw.externalConn \in {"none", "closed"}
            /\ fw.internalConn \in {"none", "closed"}
            /\ fw.externalCloses = (IF fw.externalConn = "none" THEN 0 ELSE 1)
            /\ fw.internalCloses = (IF fw.internalConn = "none" THEN 0 ELSE 1)

C24_Witness ==
    /\ fw.pc = "done"
    /\ Len(fw.up.reads) = 1
    /\ IsCloseFrame(fw.up.reads[1])
    /\ Len(fw.down.reads) = 1
    /\ IsTextRead(fw.down.reads[1])
    /\ fw.externalCloses = 1
    /\ fw.internalCloses = 1

\* C25: no step takes the ended flag of a session from set to unset, and no
\* step takes the relay's needClose from true to false.
C25_FlagsMonotone ==
    [][/\ \A s \in Sessions : IsWsEnded(ctx[s]) => IsWsEnded(ctx'[s])
       /\ fw.needClose => fw'.needClose]_vars

C25_Witness ==
    \E s \in Sessions :
        /\ IsWsEnded(ctx[s])
        /\ pinger[s] = "stopped"
        /\ Len(pings[s]) = 1
        /\ pc[s] = "done"

\* C26: when the handler with a forward socket has returned, a forward socket
\* that was attached to the session is closed.
C26_PeerSocketClosed ==
    (ph.pc = "done" /\ GetForwardConn(ph) # "none") => ph.forward = "closed"

\* C27: a request refused at the admission gate or whose upgrade failed or
\* timed out is answered with a status outside 200..299.
C27_PreUpgradeFailureStatus ==
    \A s \in Sessions :
        exit[s] \in {"busy", "upgradeError", "upgradeTimeout"}
        => response[s].status \notin 200..299

\* C28: with a connection limit configured, WebSocketForward has an upgraded
\* client socket only while a permit of the semaphore is held.
C28_RelayHoldsPermit ==
    (~semaphore.nil /\ fw.externalConn = "open") => semaphore.held >= 1

FrameTypes ==
    {TextMessage, BinaryMessage, CloseMessage, PingMessage, PongMessage, NoFrame}

\* C29: DefaultIsEndHandler is true exactly for the types CloseMessage and -1,
\* whatever the payload; and the loop treats a frame read without error as the
\* end of the session exactly when its type is one of these two.
C29_DefaultIsEndHandler ==
    /\ \A mt \in FrameTypes : \A data \in Payloads \cup {""} :
          DefaultIsEndHandler(mt, data) <=> (mt = 8 \/ mt = -1)
    /\ \A s \in Sessions : \A i \in 1..Len(readLog[s]) :
          readLog[s][i].err = Nil
          => ((i = Len(readLog[s]) /\ exit[s] = "endFrame")
                 <=> readLog[s][i].mt \in {CloseMessage, NoFrame})

C29_Witness ==
    \E s \in Sessions :
        /\ Len(readLog[s]) = 3
        /\ readLog[s][1].mt = BinaryMessage
        /\ readLog[s][2].mt = PongMessage
        /\ readLog[s][3] = [mt |-> NoFrame, data |-> "a", err |-> Nil]
        /\ Len(dispatched[s]) = 1
        /\ exit[s] = "endFrame"

\* C30: a handler that entered the loop and has left it by one of its breaks
\* (the flag found set at the head, a read error, an end-of-session frame)
\* has the ended flag set.
C30_EndedAfterLoop ==
    \A s \in Sessions :
        (/\ pc[s] = "done"
         /\ started[s] \in {"ok", "okEnded"}
         /\ exit[s] # "bizPanic")
        => IsWsEnded(ctx[s])

C30_Witness ==
    \E s \in Sessions :
        /\ pc[s] = "done"
        /\ exit[s] = "ended"
        /\ Len(dispatched[s]) = 2
        /\ dispatched[s][2].res = "ended"
        /\ IsWsEnded(ctx[s])

\* C31: once Get has returned after starting the keepalive goroutine, the
\* goroutine stops: startPing returns only when it finds the ended flag set, so
\* a goroutine that is still running after the return has that flag set.
C31_WorkerStops ==
    \A s \in Sessions :
        (pc[s] = "done" /\ pinger[s] \in {"sleep", "write"}) => IsWsEnded(ctx[s])

\* C32: the keepalive goroutine never writes a ping after the ended flag has
\* been set, and never to a socket the handler has closed.
C32_NoPingAfterEnded ==
    \A s \in Sessions : \A i \in 1..Len(pings[s]) :
        ~pings[s][i].ended /\ pings[s][i].sock = "open"

\* C33: syncWsMessage writes to the destination only what a read returned
\* without error and with a real frame type: nothing for an error or for -1.
C33_WriteOnlyRealFrames ==
    \A p \in Pumps : \A i \in 1..Len(fw[p].writes) :
        /\ fw[p].writes[i].mt # NoFrame
        /\ fw[p].reads[i].err = Nil

\* C34: once needClose has been set by one pump, neither pump writes a
\* further frame to either socket.
C34_NoWriteAfterNeedClose ==
    \A p \in Pumps : \A i \in 1..Len(fw[p].writes) : ~fw[p].writes[i].needClose

\* The calls of one kind in a session's trace.
CallsOf(s, what) == {i \in 1..Len(trace[s]) : trace[s][i].call = what}

\* C35: with per-message tracing enabled, every sub-span started for a read
\* has been ended exactly once when the next read begins or the loop is left.
C35_SpansEndedOnce ==
    \A s \in Sessions :
        Cardinality(CallsOf(s, "Start")) = Cardinality(CallsOf(s, "EndSpan"))

\* C36: with PongWait > 0 the read deadline changes only when the session is
\* set up and when a pong is read; a data frame leaves it as it is, and no
\* frame is read once it has passed, so that a session without pongs ends
\* with a read error although data frames arrive.
C36_ReadDeadlineOnlyOnPong ==
    /\ [][\A s \in Sessions :
            timers'[s].readDeadline # timers[s].readDeadline
            => \/ pc[s] = "upgrading"
               \/ /\ Len(readLog'[s]) = Len(readLog[s]) + 1
                  /\ IsPong(readLog'[s][Len(readLog'[s])])]_vars
    /\ [][\A s \in Sessions :
            (/\ Len(readLog'[s]) = Len(readLog[s]) + 1
             /\ readLog'[s][Len(readLog'[s])].err = Nil)
            => ~Expired(timers[s].readDeadline)]_vars

C36_Witness ==
    \E s \in Sessions :
        /\ conf.PongWait > 0
        /\ Len(readLog[s]) = 3
        /\ IsTextRead(readLog[s][1])
        /\ IsTextRead(readLog[s][2])
        /\ readLog[s][3].err # Nil
        /\ Len(dispatched[s]) = 2
        /\ Expired(timers[s].readDeadline)
        /\ exit[s] = "readError"

\* C37: on the end-of-session branch EndCallbackHandler is invoked with the
\* ended flag already set and before the close frame is written: the frame
\* the handler writes next after the call is the echoed close frame.
C37_EndCallbackOrder ==
    \A s \in Sessions : \A i \in CallsOf(s, "EndCallbackHandler") :
        /\ trace[s][i].ended
        /\ Len(written[s]) = trace[s][i].frames + 1
        /\ written[s][trace[s][i].frames + 1].mt = CloseMessage
        /\ \A j \in 1..trace[s][i].frames : written[s][j].mt # CloseMessage

C37_Witness ==
    \E s \in Sessions :
        /\ exit[s] = "endFrame"
        /\ Len(readLog[s]) = 2
        /\ Len(endCalls[s]) = 1
        /\ CallsOf(s, "EndCallbackHandler") # {}
        /\ written[s][Len(written[s])].mt = CloseMessage

\* What the accessors other than the one written return.
ForwardView(c) ==
    [conn |-> [m \in Marks |-> GetForwardConnOf(c, m)],
     ts |-> [m \in Marks |-> GetForwardConnTimestamp(c, m)],
     ended |-> [m \in Marks |-> IsForwardWsEnded(c, m)],
     own |-> GetConn(c),
     wsEnded |-> IsWsEnded(c)]

\* C38: the entries of the context are isolated for all forward marks:
\* SetForwardConn(ctx, m, conn) changes GetForwardConn(ctx, m) and nothing
\* another accessor returns, and likewise SetForwardConnTimestamp and
\* SetForwardWsEnded.
C38_EntriesIsolated ==
    \A m \in Marks :
        /\ \A conn \in ForwardConns :
              ForwardView(SetForwardConnOf(ctx[1], m, conn))
                  = [ForwardView(ctx[1]) EXCEPT !.conn[m] = conn]
        /\ \A ts \in Timestamps :
              ForwardView(SetForwardConnTimestamp(ctx[1], m, ts))
                  = [ForwardView(ctx[1]) EXCEPT !.ts[m] = ts]
        /\ ForwardView(SetForwardWsEnded(ctx[1], m))
              = [ForwardView(ctx[1]) EXCEPT !.ended[m] = TRUE]

\* C39: WaitGroupAllDone returns only when every IncrWaitGroup that reached
\* its wait group has been matched by a DoneWaitGroup; without a wait group
\* in the context IncrWaitGroup and DoneWaitGroup change nothing and
\* WaitGroupAllDone returns at once.
C39_WaitGroup ==
    /\ (wg.waiter.at = "returned" /\ wg.waiter.on # 0)
       => wg.waiter.adds = wg.waiter.dones
    /\ GetWaitGroup(wg) = 0
       => /\ IncrWaitGroup(wg) = wg
          /\ DoneWaitGroup(wg) = wg
          /\ WaitGroupAllDone(wg).waiter.at = "returned"

C39_Witness ==
    /\ wg.waiter.at = "returned"
    /\ wg.waiter.on # 0
    /\ wg.waiter.adds = 2
    /\ wg.waiter.dones = 2

\* The outcomes the caller of upgradeWithTimeout has received.
UpgradeOutcomes(s) ==
    {o \in {"socket", "error", "timeout"} :
        \/ o = "socket" /\ GetConn(ctx[s]) = "conn"
        \/ o = "error" /\ exit[s] = "upgradeError"
        \/ o = "timeout" /\ exit[s] = "upgradeTimeout"}

\* C40: the goroutine of upgradeWithTimeout never blocks on its channel send:
\* while it runs both channels have room, so it finishes whatever the caller
\* selected; and the caller receives exactly one outcome.
C40_UpgradeGoroutineNeverBlocks ==
    \A s \in Sessions :
        /\ upg[s] = "running"
           => /\ connChan[s] = "empty"
              /\ errChan[s] = "empty"
              /\ ENABLED (\E ok \in BOOLEAN : UpgradeGoroutine(s, ok))
        /\ ~(connChan[s] = "full" /\ errChan[s] = "full")
        /\ pc[s] = "upgrading" => UpgradeOutcomes(s) = {}
        /\ (pc[s] \in {"reading", "done"} /\ exit[s] # "busy")
           => Cardinality(UpgradeOutcomes(s)) = 1

C40_Witness ==
    \E s \in Sessions :
        /\ exit[s] = "upgradeTimeout"
        /\ upg[s] = "done"
        /\ connChan[s] = "full"

====
